---- MODULE Spec2Model ----
(***************************************************************************)
(* A model of the RAG search front end: RAGSearchClient (utils.py), the    *)
(* citation grouper extract_citations (utils.py) and the Streamlit page    *)
(* main / display_search_results (main.py).                                *)
(*                                                                         *)
(* Representation.  A Python str that the code slices is a sequence of     *)
(* one-character strings; a str that is only copied (a filename, a query,  *)
(* a snippet, an error message) is a TLA+ string.  A value that may be     *)
(* None is a sequence of length at most one: None is <<>> and x is <<x>>.  *)
(* A dict is a record, and d.get(k, default) is Get(d, k, default).        *)
(***************************************************************************)
EXTENDS Integers, Sequences, FiniteSets, TLC

VARIABLES
    query_input,     \* st.session_state["query_input"]: the text of the form
    api_response,    \* what client.responses.create returns or raises
    current_result,  \* st.session_state.current_result
    search_history,  \* st.session_state.search_history
    screen,          \* what the last run of the page rendered
    formatted,       \* last return value of format_answer_with_citations
    clock            \* the wall clock datetime.now() reads, in seconds

vars == <<query_input, api_response, current_result, search_history, screen, formatted,
          clock>>

-----------------------------------------------------------------------------
(* Python values *)

None == <<>>
Some(x) == <<x>>

Get(d, key, default) == IF key \in DOMAIN d THEN d[key] ELSE default

Range(s) == {s[i] : i \in 1..Len(s)}

\* s[:n]
Take(s, n) == SubSeq(s, 1, IF n < Len(s) THEN n ELSE Len(s))

\* s[n:]
Drop(s, n) == SubSeq(s, (IF n < Len(s) THEN n ELSE Len(s)) + 1, Len(s))

Digits == <<"0", "1", "2", "3", "4", "5", "6", "7", "8", "9">>

\* str(n) of a non-negative int
RECURSIVE IntStr(_)
IntStr(n) ==
    IF n < 10 THEN <<Digits[n + 1]>>
    ELSE IntStr(n \div 10) \o <<Digits[(n % 10) + 1]>>

NoneText == <<"N", "o", "n", "e">>

\* the text an f-string shows for an answer that may be None
FStr(opt) == IF opt = None THEN NoneText ELSE opt[1]

\* list(a_set): the iteration order of a set of str depends on the hash seed of
\* the process, so every enumeration of the set is a possible outcome
SetToList(S) ==
    {s \in [1..Cardinality(S) -> S] : \A i, j \in 1..Cardinality(S) : s[i] = s[j] => i = j}

-----------------------------------------------------------------------------
(* utils.py: RAGSearchClient._process_response *)

\* next((item for item in items if item.type == type), None)
RECURSIVE FirstOfType(_, _)
FirstOfType(items, type) ==
    IF items = <<>> THEN None
    ELSE IF Head(items).type = type THEN Some(Head(items))
    ELSE FirstOfType(Tail(items), type)

\* [c.text for c in sr.content if hasattr(c, "text")]
RECURSIVE ContentTexts(_)
ContentTexts(content) ==
    IF content = <<>> THEN <<>>
    ELSE (IF "text" \in DOMAIN Head(content) THEN <<Head(content).text>> ELSE <<>>)
         \o ContentTexts(Tail(content))

SearchResultOf(sr) ==
    [filename |-> sr.filename, file_id |-> sr.file_id, score |-> sr.score,
     content |-> ContentTexts(sr.content)]

\* result["search_results"]: None unless the call carries a non-empty hit list
SearchResultsOf(file_search_call) ==
    IF file_search_call = None THEN None
    ELSE LET call == file_search_call[1]
         IN IF "search_results" \in DOMAIN call
               /\ call.search_results # None
               /\ call.search_results[1] # <<>>
            THEN Some([i \in 1..Len(call.search_results[1]) |->
                          SearchResultOf(call.search_results[1][i])])
            ELSE None

FileSearchCallOf(file_search_call) ==
    IF file_search_call = None THEN None
    ELSE Some([id |-> file_search_call[1].id, status |-> file_search_call[1].status,
               queries |-> file_search_call[1].queries])

\* the output_text content of the first message, or None
TextContentOf(output) ==
    LET message == FirstOfType(output, "message")
    IN IF message # None /\ message[1].content # <<>>
       THEN FirstOfType(message[1].content, "output_text")
       ELSE None

AnnotationInfo(annotation) ==
    [type |-> annotation.type, index |-> annotation.index,
     file_id |-> annotation.file_id, filename |-> annotation.filename]

\* result["annotations"]: the file_citation annotations, in the API's order
RECURSIVE FileCitations(_)
FileCitations(annotations) ==
    IF annotations = <<>> THEN <<>>
    ELSE (IF Head(annotations).type = "file_citation"
          THEN <<AnnotationInfo(Head(annotations))>> ELSE <<>>)
         \o FileCitations(Tail(annotations))

AnnotationsOf(output) ==
    LET text_content == TextContentOf(output)
    IN IF text_content # None /\ "annotations" \in DOMAIN text_content[1]
       THEN FileCitations(text_content[1].annotations)
       ELSE <<>>

\* the set result["files_used"] before it is turned into a list
FilesUsedSet(output) == {a.filename : a \in Range(AnnotationsOf(output))}

\* files_used is list(result["files_used"]): one of SetToList(FilesUsedSet(output))
process_response(output, files_used) ==
    LET file_search_call == FirstOfType(output, "file_search_call")
        text_content == TextContentOf(output)
    IN [error |-> FALSE,
        message |-> None,
        file_search_call |-> FileSearchCallOf(file_search_call),
        answer |-> IF text_content # None THEN Some(text_content[1].text) ELSE None,
        annotations |-> AnnotationsOf(output),
        files_used |-> files_used,
        search_results |-> SearchResultsOf(file_search_call)]

-----------------------------------------------------------------------------
(* utils.py: RAGSearchClient.search *)

NotIterable == "'NoneType' object is not iterable"

ErrorResult(message, query) == [error |-> TRUE, message |-> Some(message), query |-> query]

\* the filenames whose order list(set) decides; none when the call faults
CitedFiles(response) ==
    IF response.raised \/ response.output = None THEN {}
    ELSE FilesUsedSet(response.output[1])

\* search without the except clause around the processing: a response without
\* output is read as an empty one
search_unguarded(query, response, files_used) ==
    IF response.raised THEN ErrorResult(response.message, query)
    ELSE process_response(IF response.output = None THEN <<>> ELSE response.output[1],
                          files_used)

\* try: create + _process_response; except Exception: the error dict
search(query, response, files_used) ==
    IF response.raised THEN ErrorResult(response.message, query)
    ELSE IF response.output = None THEN ErrorResult(NotIterable, query)
    ELSE process_response(response.output[1], files_used)

-----------------------------------------------------------------------------
(* utils.py: extract_citations *)

SnippetsPerHit == 2
MaxSnippets == 3

\* the inner loop without the [:2] limit on a hit's content
RECURSIVE MatchHitsWholeContent(_, _, _, _)
MatchHitsWholeContent(filename, search_results, snippets, score) ==
    IF search_results = <<>> THEN [snippets |-> snippets, score |-> score]
    ELSE LET result == Head(search_results)
         IN IF Get(result, "filename", "") = filename
            THEN MatchHitsWholeContent(filename, Tail(search_results),
                                       snippets \o Get(result, "content", <<>>),
                                       Some(Get(result, "score", 0)))
            ELSE MatchHitsWholeContent(filename, Tail(search_results), snippets, score)

\* the inner loop over search_results for one filename; score is the function's
\* local variable, None while it is unbound: it is assigned only on a match and
\* is not reset between filenames
RECURSIVE MatchHits(_, _, _, _)
MatchHits(filename, search_results, snippets, score) ==
    IF search_results = <<>> THEN [snippets |-> snippets, score |-> score]
    ELSE LET result == Head(search_results)
         IN IF Get(result, "filename", "") = filename
            THEN MatchHits(filename, Tail(search_results),
                           snippets \o Take(Get(result, "content", <<>>), SnippetsPerHit),
                           Some(Get(result, "score", 0)))
            ELSE MatchHits(filename, Tail(search_results), snippets, score)

\* the outer loop over files_used
RECURSIVE GroupByFilename(_, _, _, _)
GroupByFilename(files_used, search_results, score, citations) ==
    IF files_used = <<>> THEN citations
    ELSE LET filename == Head(files_used)
             found == MatchHits(filename, search_results, <<>>, score)
         IN GroupByFilename(Tail(files_used), search_results, found.score,
                Append(citations,
                       [filename |-> filename,
                        snippets |-> Take(found.snippets, MaxSnippets),
                        score |-> found.score]))

extract_citations(search_result) ==
    LET files_used == Get(search_result, "files_used", <<>>)
        search_results == Get(search_result, "search_results", Some(<<>>))
    IN IF search_results = None \/ search_results[1] = <<>>
       THEN [i \in 1..Len(files_used) |-> [filename |-> files_used[i], snippets |-> <<>>]]
       ELSE GroupByFilename(files_used, search_results[1], None, <<>>)

-----------------------------------------------------------------------------
(* sorted(annotations, key=lambda x: x.get("index", 0), reverse=True) *)

SortKey(annotation) == Get(annotation, "index", 0)

\* put annotation behind the entries whose key is not smaller: reverse=True
\* keeps entries of equal key in their original order
RECURSIVE InsertByIndex(_, _)
InsertByIndex(sorted, annotation) ==
    IF sorted = <<>> THEN <<annotation>>
    ELSE IF SortKey(Head(sorted)) >= SortKey(annotation)
         THEN <<Head(sorted)>> \o InsertByIndex(Tail(sorted), annotation)
         ELSE <<annotation>> \o sorted

\* the sort without reverse=True
RECURSIVE SortAscending(_)
SortAscending(annotations) ==
    IF annotations = <<>> THEN <<>>
    ELSE LET rest == SortAscending(Tail(annotations))
             a == Head(annotations)
             small == SelectSeq(rest, LAMBDA b : SortKey(b) < SortKey(a))
             large == SelectSeq(rest, LAMBDA b : SortKey(b) >= SortKey(a))
         IN small \o <<a>> \o large

RECURSIVE sorted_annotations(_)
sorted_annotations(annotations) ==
    IF annotations = <<>> THEN <<>>
    ELSE InsertByIndex(sorted_annotations(SubSeq(annotations, 1, Len(annotations) - 1)),
                       annotations[Len(annotations)])

-----------------------------------------------------------------------------
(* main.py: display_search_results *)

NoAnswerFound ==
    <<"N", "o", " ", "a", "n", "s", "w", "e", "r", " ", "f", "o", "u", "n", "d", ".">>

BadgeOpen ==
    <<"<", "s", "u", "p", " ", "c", "l", "a", "s", "s", "=", "'", "c", "i", "t", "a",
      "t", "i", "o", "n", "-", "b", "a", "d", "g", "e", "'", ">", "[">>

BadgeClose == <<"]", "<", "/", "s", "u", "p", ">">>

\* f"<sup class='citation-badge'>[{citation_num}]</sup>"
citation_ref(citation_num) == BadgeOpen \o citation_num \o BadgeClose

\* the map without the "+ 1": numbers from 0
NumberFromZero(files_used) ==
    [f \in Range(files_used) |->
        (CHOOSE i \in 1..Len(files_used) :
            files_used[i] = f /\ \A j \in (i + 1)..Len(files_used) : files_used[j] # f) - 1]

\* citation_map[filename] = i + 1 for i, filename in enumerate(files_used); the
\* 0-based i plus one is the position in the TLA+ sequence
citation_map(files_used) ==
    [f \in Range(files_used) |->
        CHOOSE i \in 1..Len(files_used) :
            files_used[i] = f /\ \A j \in (i + 1)..Len(files_used) : files_used[j] # f]

\* citation_map.get(filename, "?") as the f-string shows it
citation_num(map, filename) ==
    IF filename \in DOMAIN map THEN IntStr(map[filename]) ELSE <<"?">>

\* formatted_answer[:index] + citation_ref + formatted_answer[index:]
Splice(text, index, ref) == Take(text, index) \o ref \o Drop(text, index)

\* the loop with the bound test index <= len(formatted_answer)
RECURSIVE InsertCitationRefsToEnd(_, _, _)
InsertCitationRefsToEnd(formatted_answer, annotations, map) ==
    IF annotations = <<>> THEN formatted_answer
    ELSE LET annotation == Head(annotations)
             index == Get(annotation, "index", 0)
             num == citation_num(map, Get(annotation, "filename", "Unknown Source"))
         IN InsertCitationRefsToEnd(
                IF index # 0 /\ index <= Len(formatted_answer)
                THEN Splice(formatted_answer, index, citation_ref(num))
                ELSE formatted_answer,
                Tail(annotations), map)

\* the loop over sorted_annotations; index is falsy when it is 0
RECURSIVE InsertCitationRefs(_, _, _)
InsertCitationRefs(formatted_answer, annotations, map) ==
    IF annotations = <<>> THEN formatted_answer
    ELSE LET annotation == Head(annotations)
             index == Get(annotation, "index", 0)
             filename == Get(annotation, "filename", "Unknown Source")
             num == citation_num(map, filename)
         IN InsertCitationRefs(
                IF index # 0 /\ index < Len(formatted_answer)
                THEN Splice(formatted_answer, index, citation_ref(num))
                ELSE formatted_answer,
                Tail(annotations), map)

\* the text of the answer card: the value of key "answer" when the key is
\* present (None included), spliced only when there are annotations
formatted_answer_of(search_result) ==
    LET answer == Get(search_result, "answer", Some(NoAnswerFound))
        files_used == Get(search_result, "files_used", <<>>)
        annotations == Get(search_result, "annotations", <<>>)
    IN IF annotations # <<>>
       THEN InsertCitationRefs(answer[1], sorted_annotations(annotations),
                               citation_map(files_used))
       ELSE FStr(answer)

\* the "Sources & Citations" cards: [i+1], filename, score, snippets
citation_cards(search_result) ==
    LET citations == extract_citations(search_result)
    IN [i \in 1..Len(citations) |->
           [num |-> IntStr(i),
            filename |-> Get(citations[i], "filename", "Unknown Source"),
            score |-> Get(citations[i], "score", None),
            snippets |-> Get(citations[i], "snippets", <<>>)]]

BlankScreen ==
    [error |-> None, answer |-> None, sources |-> <<>>, citations |-> <<>>, raw |-> None]

display_search_results(search_result) ==
    IF Get(search_result, "error", FALSE)
    THEN [BlankScreen EXCEPT !.error = Some(Get(search_result, "message", Some("Unknown error"))[1])]
    ELSE LET files_used == Get(search_result, "files_used", <<>>)
         IN [error |-> None,
             answer |-> Some(formatted_answer_of(search_result)),
             sources |-> files_used,
             citations |-> IF files_used # <<>> THEN citation_cards(search_result) ELSE <<>>,
             raw |-> Get(search_result, "search_results", None)]

\* main(): "if st.session_state.current_result: display_search_results(...)"
render(result) == IF result = None THEN BlankScreen ELSE display_search_results(result[1])

-----------------------------------------------------------------------------
(* utils.py: RAGSearchClient.format_answer_with_citations *)

ErrorRetrievingAnswer ==
    <<"E", "r", "r", "o", "r", " ", "r", "e", "t", "r", "i", "e", "v", "i", "n", "g",
      " ", "a", "n", "s", "w", "e", "r", ".">>

RefOpen == <<" ", "[">>
RefClose == <<"]">>

\* the loop "for i, annotation in enumerate(sorted_annotations)"; i is 0-based
RECURSIVE InsertNumberedRefs(_, _, _)
InsertNumberedRefs(answer, annotations, i) ==
    IF annotations = <<>> THEN answer
    ELSE LET index == Get(Head(annotations), "index", 0)
         IN InsertNumberedRefs(
                IF index # 0 /\ index < Len(answer)
                THEN Splice(answer, index, RefOpen \o IntStr(i + 1) \o RefClose)
                ELSE answer,
                Tail(annotations), i + 1)

\* search_result is None or a result; the return value is None when the result
\* has no answer (and then no annotations either)
format_answer_with_citations(search_result) ==
    IF search_result = None \/ Get(search_result[1], "error", FALSE)
    THEN Some(ErrorRetrievingAnswer)
    ELSE LET answer == Get(search_result[1], "answer", Some(<<>>))
             annotations == Get(search_result[1], "annotations", <<>>)
         IN IF annotations = <<>> THEN answer
            ELSE Some(InsertNumberedRefs(answer[1], sorted_annotations(annotations), 0))

-----------------------------------------------------------------------------
(* The environment: what the Responses API can deliver *)

MaxLen == 3      \* answers of 0..MaxLen characters; offsets 0..MaxLen + 1
MaxAnn == 2      \* annotations per answer
MaxHits == 2     \* raw search hits per response
MaxHistory == 2  \* submissions with a query per session
MaxClock == 1    \* seconds the clock advances in a session

Letters == <<"a", "b", "c", "d", "e", "f", "g", "h">>

Text(n) == SubSeq(Letters, 1, n)

Files == {"a.pdf", "b.pdf", "c.pdf"}

FileId(filename) ==
    CASE filename = "a.pdf" -> "file-a"
      [] filename = "b.pdf" -> "file-b"
      [] OTHER -> "file-c"

Queries == {"", "what is deep research", "who wrote it"}

Scores == {25, 75}

Cite(index, filename) ==
    [type |-> "file_citation", index |-> index, file_id |-> FileId(filename),
     filename |-> filename]

FilePath(index, filename) ==
    [type |-> "file_path", index |-> index, file_id |-> FileId(filename),
     filename |-> filename]

TextPart(text) == [type |-> "text", text |-> text]

Hit(filename, score, content) ==
    [filename |-> filename, file_id |-> FileId(filename), score |-> score,
     content |-> content]

FileSearchCall(search_results) ==
    [type |-> "file_search_call", id |-> "fs_1", status |-> "completed",
     queries |-> <<"deep research">>, search_results |-> search_results]

OutputText(text, annotations) ==
    [type |-> "output_text", text |-> text, annotations |-> annotations]

Refusal == [type |-> "refusal", refusal |-> "I cannot help with that."]

Message(content) == [type |-> "message", content |-> content]

Raised(message) == [raised |-> TRUE, message |-> message, output |-> None]

Returned(output) == [raised |-> FALSE, message |-> "", output |-> Some(output)]

\* a response object whose output is None
ReturnedNoOutput == [raised |-> FALSE, message |-> "", output |-> None]

SeqsUpTo(S, n) == UNION {[1..k -> S] : k \in 0..n}

\* the worked example of the specification
ExampleAnswer ==
    <<"D", "e", "e", "p", " ", "R", "e", "s", "e", "a", "r", "c", "h", " ", "i", "s",
      " ", "a", " ", "t", "o", "o", "l", ".">>

ExampleAnnotations == <<Cite(24, "a.pdf"), Cite(10, "b.pdf")>>

ExampleResponse ==
    Returned(<<FileSearchCall(None), Message(<<OutputText(ExampleAnswer, ExampleAnnotations)>>)>>)

\* answers with annotations at every offset around the answer, no raw hits
SpliceAnnotations ==
    {Cite(o, f) : o \in 0..(MaxLen + 1), f \in {"a.pdf", "b.pdf"}}
        \cup {FilePath(1, "a.pdf")}

SpliceResponses ==
    {Returned(<<FileSearchCall(None), Message(<<OutputText(Text(n), anns)>>)>>) :
        n \in 0..MaxLen, anns \in SeqsUpTo(SpliceAnnotations, MaxAnn)}

\* answers citing zero to three files, with raw hits for a.pdf and b.pdf only
Contents ==
    {<<>>,
     <<TextPart("p1")>>,
     <<TextPart("p1"), TextPart("p2"), TextPart("p3")>>,
     <<TextPart("q1"), [type |-> "image"], TextPart("q2")>>}

Hits == {Hit(f, s, c) : f \in {"a.pdf", "b.pdf"}, s \in Scores, c \in Contents}

CitingAnnotations == <<Cite(1, "a.pdf"), Cite(2, "b.pdf"), Cite(1, "c.pdf")>>

GroupResponses ==
    {Returned(<<FileSearchCall(Some(hits)),
                Message(<<OutputText(Text(MaxLen), SubSeq(CitingAnnotations, 1, k))>>)>>) :
        k \in 0..3, hits \in SeqsUpTo(Hits, MaxHits)}

OnceResponses == SpliceResponses \cup GroupResponses

\* what one session meets: faults, responses without an answer, answers
SessionResponses ==
    {Raised("Connection error."),
     ReturnedNoOutput,
     Returned(<<>>),
     Returned(<<FileSearchCall(Some(<<Hit("a.pdf", 75, <<TextPart("p1")>>)>>))>>),
     Returned(<<FileSearchCall(None), Message(<<>>)>>),
     Returned(<<Message(<<Refusal>>)>>),
     Returned(<<Message(<<OutputText(Text(MaxLen), <<>>)>>)>>),
     Returned(<<FileSearchCall(Some(<<Hit("b.pdf", 25, <<TextPart("p1"), TextPart("p2")>>)>>)),
                Message(<<OutputText(Text(MaxLen), <<Cite(2, "a.pdf"), Cite(1, "b.pdf")>>)>>)>>),
     ExampleResponse}

-----------------------------------------------------------------------------
(* main.py: one run of main() *)

\* "if submit_button and query": search, store the result, append to the
\* history, then display the current result
SubmitQuery(query, response, files_used) ==
    /\ query # ""
    /\ Len(search_history) < MaxHistory
    /\ files_used \in SetToList(CitedFiles(response))
    /\ query_input' = query
    /\ api_response' = Some(response)
    /\ current_result' = Some(search(query, response, files_used))
    /\ search_history' = Append(search_history, [query |-> query, timestamp |-> clock])
    /\ screen' = render(current_result')
    /\ UNCHANGED <<formatted, clock>>

\* an empty submission that resets the current result
SubmitEmptyClears ==
    /\ query_input' = ""
    /\ current_result' = None
    /\ screen' = BlankScreen
    /\ UNCHANGED <<api_response, search_history, formatted, clock>>

\* the form is submitted with an empty query: no search, the page is redrawn
SubmitEmpty ==
    /\ query_input' = ""
    /\ screen' = render(current_result)
    /\ UNCHANGED <<api_response, current_result, search_history, formatted, clock>>

\* a caller of the client formats the current result
FormatAnswer ==
    /\ formatted' = format_answer_with_citations(current_result)
    /\ UNCHANGED <<query_input, api_response, current_result, search_history, screen,
                   clock>>

\* time passes between two runs of the page
Tick ==
    /\ clock < MaxClock
    /\ clock' = clock + 1
    /\ UNCHANGED <<query_input, api_response, current_result, search_history, screen,
                   formatted>>

Submit ==
    \E query \in Queries, response \in SessionResponses :
        \E files_used \in SetToList(CitedFiles(response)) :
            SubmitQuery(query, response, files_used)

\* lines 31-36: the session state before the first run
Init ==
    /\ query_input = ""
    /\ api_response = None
    /\ current_result = None
    /\ search_history = <<>>
    /\ screen = BlankScreen
    /\ formatted = None
    /\ clock = 0

Next == Submit \/ SubmitEmpty \/ FormatAnswer \/ Tick

Spec == Init /\ [][Next]_vars

\* One submission of one query against each response of OnceResponses:
\* api_response is the response the API is about to deliver
InitOnce ==
    /\ query_input = "what is deep research"
    /\ api_response \in {Some(r) : r \in OnceResponses}
    /\ current_result = None
    /\ search_history = <<>>
    /\ screen = BlankScreen
    /\ formatted = None
    /\ clock = 0

\* the query in the form is submitted and answered by the pending response
SubmitPending ==
    /\ search_history = <<>>
    /\ \E files_used \in SetToList(CitedFiles(api_response[1])) :
            SubmitQuery(query_input, api_response[1], files_used)

NextOnce == SubmitPending \/ FormatAnswer

SpecOnce == InitOnce /\ [][NextOnce]_vars

-----------------------------------------------------------------------------
(* What a reader of the page sees *)

\* the current result is an answer (not an error, not a missing answer)
Answered ==
    /\ current_result # None
    /\ ~current_result[1].error
    /\ current_result[1].answer # None

HasAt(text, i, part) ==
    /\ i + Len(part) - 1 <= Len(text)
    /\ SubSeq(text, i, i + Len(part) - 1) = part

\* the markers open..close of a text, left to right, each with the number it
\* shows and the count of characters outside markers that precede it
RECURSIVE Markers(_, _, _, _, _)
Markers(text, open, close, i, offset) ==
    IF i > Len(text) THEN <<>>
    ELSE IF HasAt(text, i, open)
         THEN LET from == i + Len(open)
                  j == CHOOSE j \in from..Len(text) :
                           /\ HasAt(text, j, close)
                           /\ \A k \in from..(j - 1) : ~HasAt(text, k, close)
              IN <<[offset |-> offset, num |-> SubSeq(text, from, j - 1)]>>
                 \o Markers(text, open, close, j + Len(close), offset)
         ELSE Markers(text, open, close, i + 1, offset + 1)

Badges(text) == Markers(text, BadgeOpen, BadgeClose, 1, 0)

Refs(text) == Markers(text, RefOpen, RefClose, 1, 0)

At(seq, o) == SelectSeq(seq, LAMBDA x : x.offset = o)

CitedAt(annotations, o) == SelectSeq(annotations, LAMBDA a : a.index = o)

-----------------------------------------------------------------------------
(* Claims *)

RECURSIVE FirstSeen(_)
FirstSeen(names) ==
    IF names = <<>> THEN <<>>
    ELSE LET rest == FirstSeen(SubSeq(names, 1, Len(names) - 1))
             last == names[Len(names)]
         IN IF last \in Range(rest) THEN rest ELSE Append(rest, last)

Filenames(annotations) == [i \in 1..Len(annotations) |-> annotations[i].filename]

\* C1: the source list of a normalized response holds each cited filename once,
\* in the order in which the filenames first appear in the API's annotation list.
C1_SourcesInFirstSeenOrder ==
    (current_result # None /\ ~current_result[1].error) =>
        current_result[1].files_used = FirstSeen(Filenames(current_result[1].annotations))

ExampleSpliced ==
    <<"D", "e", "e", "p", " ", "R", "e", "s", "e", "a", "<", "s", "u", "p", " ", "c",
      "l", "a", "s", "s", "=", "'", "c", "i", "t", "a", "t", "i", "o", "n", "-", "b",
      "a", "d", "g", "e", "'", ">", "[", "2", "]", "<", "/", "s", "u", "p", ">", "r",
      "c", "h", " ", "i", "s", " ", "a", " ", "t", "o", "o", "l", ".", "<", "s", "u",
      "p", " ", "c", "l", "a", "s", "s", "=", "'", "c", "i", "t", "a", "t", "i", "o",
      "n", "-", "b", "a", "d", "g", "e", "'", ">", "[", "1", "]", "<", "/", "s", "u",
      "p", ">">>

\* C5: for "Deep Research is a tool." annotated [(24, a.pdf), (10, b.pdf)] the
\* source list is [a.pdf, b.pdf] and the page shows marker [2] after "Deep Resea"
\* and marker [1] after the final ".".
C5_WorkedExample ==
    (api_response = Some(ExampleResponse) /\ current_result # None) =>
        /\ current_result[1].files_used = <<"a.pdf", "b.pdf">>
        /\ screen.answer = Some(ExampleSpliced)

\* the response has no message, or its message has no output_text content
NoAnswerInResponse ==
    /\ api_response # None
    /\ ~api_response[1].raised
    /\ api_response[1].output # None
    /\ TextContentOf(api_response[1].output[1]) = None

\* C7: a response without a message segment (or without output_text) gives a
\* result with error=false, no annotations, no sources, and the page shows the
\* sentinel "No answer found." as the answer.
C7_NoAnswerSentinel ==
    (NoAnswerInResponse /\ current_result # None) =>
        /\ current_result[1].error = FALSE
        /\ current_result[1].annotations = <<>>
        /\ current_result[1].files_used = <<>>
        /\ screen.answer = Some(NoAnswerFound)

HitsFor(result, filename) ==
    IF result.search_results = None THEN <<>>
    ELSE SelectSeq(result.search_results[1], LAMBDA h : h.filename = filename)

\* C9: a source without a matching raw hit is shown with no snippets and no
\* score, never with the score of a hit of another file.
C9_UnmatchedSourceHasNoScore ==
    (current_result # None /\ ~current_result[1].error) =>
        \A k \in 1..Len(screen.citations) :
            HitsFor(current_result[1], screen.citations[k].filename) = <<>> =>
                /\ screen.citations[k].snippets = <<>>
                /\ screen.citations[k].score = None

\* the test of the inserters against the answer as the API delivered it
Kept(text, annotation) == annotation.index # 0 /\ annotation.index < Len(text)

BadgeOf(result, annotation) ==
    citation_ref(citation_num(citation_map(result.files_used), annotation.filename))

\* characters of the badges of the kept annotations, from the i-th on, whose
\* offset is at most limit
RECURSIVE BadgeChars(_, _, _)
BadgeChars(result, limit, i) ==
    IF i > Len(result.annotations) THEN 0
    ELSE (IF Kept(result.answer[1], result.annotations[i])
             /\ result.annotations[i].index <= limit
          THEN Len(BadgeOf(result, result.annotations[i])) ELSE 0)
         + BadgeChars(result, limit, i + 1)

DistinctOffsets(annotations) ==
    \A i, j \in 1..Len(annotations) : annotations[i].index = annotations[j].index => i = j

\* C2: every marker in the shown answer carries the number of the heading of
\* the source its annotation names: no marker shows "?", heading k is the k-th
\* file of the source list, and the markers at one offset show, right to left,
\* the heading numbers of the files of the annotations at that offset.
C2_MarkersMatchHeadings ==
    Answered =>
        LET result == current_result[1]
            cards == screen.citations
            shown == Badges(screen.answer[1])
        IN /\ Len(cards) = Len(screen.sources)
           /\ \A k \in 1..Len(cards) :
                 cards[k].num = IntStr(k) /\ cards[k].filename = screen.sources[k]
           /\ \A k \in 1..Len(shown) : shown[k].num # <<"?">>
           /\ \A o \in 0..Len(result.answer[1]) :
                 LET ms == At(shown, o)
                     as == CitedAt(result.annotations, o)
                 IN ms # <<>> =>
                       /\ Len(ms) = Len(as)
                       /\ \A k \in 1..Len(ms) :
                             \E p \in 1..Len(cards) :
                                 /\ cards[p].filename = as[Len(as) + 1 - k].filename
                                 /\ \A q \in 1..Len(cards) :
                                       cards[q].filename = cards[p].filename => q = p
                                 /\ ms[k].num = cards[p].num

\* two markers with different numbers, numbered against a source list that is
\* not in first-seen order, with cards grouped from raw hits
C2_Witness ==
    /\ Answered
    /\ current_result[1].search_results # None
    /\ current_result[1].files_used # FirstSeen(Filenames(current_result[1].annotations))
    /\ \E j, k \in 1..Len(Badges(screen.answer[1])) :
           Badges(screen.answer[1])[j].num # Badges(screen.answer[1])[k].num

\* C3: with pairwise distinct offsets, each kept annotation's marker stands
\* right before the character that was at its offset, the characters of the
\* answer keep their order, and the shown text is longer than the answer by
\* the total length of the markers of the kept annotations.
C3_SplicingKeepsOffsets ==
    (Answered /\ DistinctOffsets(current_result[1].annotations)) =>
        LET result == current_result[1]
            text == result.answer[1]
            shown == screen.answer[1]
        IN /\ Len(shown) = Len(text) + BadgeChars(result, Len(text), 1)
           /\ \A c \in 1..Len(text) : shown[c + BadgeChars(result, c - 1, 1)] = text[c]
           /\ \A i \in 1..Len(result.annotations) :
                 LET a == result.annotations[i]
                     start == a.index + BadgeChars(result, a.index - 1, 1)
                 IN Kept(text, a) =>
                       /\ HasAt(shown, start + 1, BadgeOf(result, a))
                       /\ shown[start + Len(BadgeOf(result, a)) + 1] = text[a.index + 1]

\* two kept annotations of two files, listed in ascending offset order
C3_Witness ==
    /\ Answered
    /\ DistinctOffsets(current_result[1].annotations)
    /\ Len(current_result[1].annotations) >= 2
    /\ LET a == current_result[1].annotations
       IN /\ Kept(current_result[1].answer[1], a[1])
          /\ Kept(current_result[1].answer[1], a[2])
          /\ a[1].index < a[2].index
          /\ a[1].filename # a[2].filename

\* the markers of a text sit at exactly the offsets o with 0 < o < len(answer),
\* one per annotation at o
MarkedWhereKept(markers, result) ==
    LET text == result.answer[1]
        offsets == (0..Len(text)) \cup {a.index : a \in Range(result.annotations)}
                       \cup {m.offset : m \in Range(markers)}
    IN \A o \in offsets :
           Len(At(markers, o)) =
               IF 0 < o /\ o < Len(text) THEN Len(CitedAt(result.annotations, o)) ELSE 0

C4_Page == Answered => MarkedWhereKept(Badges(screen.answer[1]), current_result[1])

C4_Formatted ==
    (formatted' # formatted /\ Answered) =>
        MarkedWhereKept(Refs(formatted'[1]), current_result[1])

\* C4: in both inserters an annotation yields a marker exactly when its offset
\* o satisfies 0 < o < len(answer as delivered): on the page at every state, and
\* in the return value of format_answer_with_citations at every call.
C4_MarkerIffInnerOffset == []C4_Page /\ [][C4_Formatted]_vars

\* an annotation at the end of the answer dropped beside one that is kept, on
\* the page and in the formatted answer
C4_Witness ==
    /\ Answered
    /\ \E a, b \in Range(current_result[1].annotations) :
           /\ a.index = Len(current_result[1].answer[1])
           /\ Kept(current_result[1].answer[1], b)
    /\ Len(Badges(screen.answer[1])) = 1
    /\ formatted # None
    /\ Len(Refs(formatted[1])) = 1

\* the API call raised, or the processing of its response did
Faulted ==
    /\ api_response # None
    /\ api_response[1].raised \/ api_response[1].output = None

FaultMessage == IF api_response[1].raised THEN api_response[1].message ELSE NotIterable

\* C6: search always returns a result; after a fault of the API call or of the
\* processing, the result has error=true and the fault's message, no answer,
\* sources, annotations or hits, and the page shows the error and nothing else.
C6_FaultsBecomeErrorResults ==
    api_response # None =>
        /\ current_result # None
        /\ Faulted =>
              /\ current_result[1].error = TRUE
              /\ current_result[1].message = Some(FaultMessage)
              /\ Get(current_result[1], "answer", None) = None
              /\ Get(current_result[1], "files_used", <<>>) = <<>>
              /\ Get(current_result[1], "annotations", <<>>) = <<>>
              /\ Get(current_result[1], "search_results", None) = None
              /\ screen = [error |-> Some(FaultMessage), answer |-> None, sources |-> <<>>,
                           citations |-> <<>>, raw |-> None]

\* the processing of a response without output raised, after an earlier answer
C6_Witness ==
    /\ Faulted
    /\ ~api_response[1].raised
    /\ Len(search_history) = 2
    /\ screen.error = Some(NotIterable)

\* the first two fragments of each hit, in hit order
RECURSIVE FirstFragments(_)
FirstFragments(hits) ==
    IF hits = <<>> THEN <<>>
    ELSE SubSeq(Head(hits).content, 1,
                IF Len(Head(hits).content) < 2 THEN Len(Head(hits).content) ELSE 2)
         \o FirstFragments(Tail(hits))

\* C8: with raw hits, the cards are one per source file in source-list order;
\* a card's snippets are the first 3 of the first-two-fragments of its file's
\* hits, and its score, when the file has a hit, is that of its last hit.
C8_CardsGroupHits ==
    (current_result # None /\ ~current_result[1].error
        /\ current_result[1].search_results # None) =>
        LET result == current_result[1]
            cards == screen.citations
        IN /\ Len(cards) = Len(result.files_used)
           /\ \A k \in 1..Len(cards) :
                 LET hits == HitsFor(result, result.files_used[k])
                     fragments == FirstFragments(hits)
                 IN /\ cards[k].filename = result.files_used[k]
                    /\ cards[k].snippets =
                           SubSeq(fragments, 1, IF Len(fragments) < 3 THEN Len(fragments) ELSE 3)
                    /\ hits # <<>> => cards[k].score = Some(hits[Len(hits)].score)

\* a source with two hits of different scores and more fragments than are shown
C8_Witness ==
    /\ current_result # None
    /\ ~current_result[1].error
    /\ \E k \in 1..Len(screen.citations) :
           LET hits == HitsFor(current_result[1], screen.citations[k].filename)
           IN /\ Len(hits) = 2
              /\ hits[1].score # hits[2].score
              /\ Len(hits[1].content) > 2
              /\ Len(FirstFragments(hits)) > 3
              /\ Len(screen.citations[k].snippets) = 3

\* the slot and the form agree with the last entry of the history
C10_Slot ==
    /\ (search_history = <<>>) <=> (current_result = None)
    /\ \A i \in 1..Len(search_history) : search_history[i].query # ""
    /\ query_input # "" =>
          /\ search_history # <<>>
          /\ search_history[Len(search_history)].query = query_input
    /\ current_result # None =>
          /\ api_response # None
          /\ \E files_used \in SetToList(CitedFiles(api_response[1])) :
                current_result[1] =
                    search(search_history[Len(search_history)].query, api_response[1],
                           files_used)

\* an empty query changes neither slot nor history; the slot changes only
\* together with one entry appended for the submitted query
C10_Step ==
    /\ query_input' = "" => UNCHANGED <<current_result, search_history>>
    /\ (search_history' # search_history \/ current_result' # current_result) =>
          /\ query_input' # ""
          /\ \E t \in 0..MaxClock :
                search_history' =
                    Append(search_history, [query |-> query_input', timestamp |-> t])

\* C10: the slot holds the result (answer or error) of the most recent
\* submission with a query, an empty submission changes neither the slot nor
\* the history, and the history has one entry per submission with a query, in
\* submission order.
C10_SlotFollowsSubmissions == []C10_Slot /\ [][C10_Step]_vars

\* two queries answered, the second with an error, then an empty submission
C10_Witness ==
    /\ Len(search_history) = 2
    /\ search_history[1].query # search_history[2].query
    /\ query_input = ""
    /\ current_result # None
    /\ current_result[1].error

====
